---- MODULE Spec2Model ----
(***************************************************************************)
(* Model of the ABAP sensitive SQL field scanner (SAP Note 2378796):       *)
(* src/app/app.py (scan_unit_for_sensitive_sql, scan_2378796) and          *)
(* src/app/app1.py (scan_sql, assess).                                     *)
(*                                                                         *)
(* A source text is a sequence of atoms.  An atom is a run of characters   *)
(* of one class: a run of identifier characters (\w), one whitespace       *)
(* character (\s) or one punctuation character.  Adjacent identifier atoms *)
(* form one longer identifier (<<"MY_","STAWN","_X">> is MY_STAWN_X).  No   *)
(* keyword is the concatenation of two or more atoms, so a keyword occurs  *)
(* as a whole word exactly where one atom spells it and its neighbours are *)
(* not identifier atoms.  All offsets are character offsets (AtomLen).     *)
(***************************************************************************)
EXTENDS Integers, Sequences, FiniteSets, TLC

\* ------------------------------------------------------------------ atoms
SP == " "
NL == "\n"
DOT == "."

SpaceAtoms == {SP, NL}

WordAtoms == {"SELECT", "select", "FROM", "from", "JOIN", "join",
              "MARC", "marc", "MARA", "STAWN", "stawn", "EXPME", "expme",
              "MY_", "_X", "X"}

\* number of characters of an atom
AtomLen(a) ==
    CASE a \in {"SELECT", "select"} -> 6
      [] a \in {"STAWN", "stawn", "EXPME", "expme"} -> 5
      [] a \in {"FROM", "from", "JOIN", "join", "MARC", "marc", "MARA"} -> 4
      [] a = "MY_" -> 3
      [] a = "_X" -> 2
      [] OTHER -> 1

\* \w : the atom is a run of identifier characters
IsWord(a) == a \in WordAtoms

\* \s : the atom is a whitespace character
IsSpace(a) == a \in SpaceAtoms

\* str.upper() / re.IGNORECASE folding of an atom
Upper(a) ==
    CASE a = "select" -> "SELECT"
      [] a = "from" -> "FROM"
      [] a = "join" -> "JOIN"
      [] a = "marc" -> "MARC"
      [] a = "stawn" -> "STAWN"
      [] a = "expme" -> "EXPME"
      [] OTHER -> a

\* ------------------------------------------------------------ rule table
SENSITIVE_TABLES == {<<"MARC">>}

\* variant: the fields iterated in the opposite order
SENSITIVE_FIELDS_Reversed == <<"EXPME", "STAWN">>

\* keys of the SENSITIVE_FIELDS dict in insertion order
SENSITIVE_FIELDS == <<"STAWN", "EXPME">>

\* ------------------------------------------------------------- text tools
RECURSIVE Width(_)
\* len() of a text in characters
Width(t) == IF t = <<>> THEN 0 ELSE AtomLen(Head(t)) + Width(Tail(t))

\* character offset (0-based) at which atom i of t starts
CharOff(t, i) == Width(SubSeq(t, 1, i - 1))

Min(S) == CHOOSE x \in S : \A y \in S : x <= y
Max2(a, b) == IF a >= b THEN a ELSE b
Min2(a, b) == IF a <= b THEN a ELSE b

\* last atom of the maximal run of identifier atoms starting at atom i (\w+)
RECURSIVE WordRunEnd(_, _)
WordRunEnd(t, i) ==
    IF i + 1 <= Len(t) /\ IsWord(t[i + 1]) THEN WordRunEnd(t, i + 1) ELSE i

\* first atom after the maximal run of whitespace atoms starting at i (\s+)
RECURSIVE SkipSpace(_, _)
SkipSpace(t, i) ==
    IF i <= Len(t) /\ IsSpace(t[i]) THEN SkipSpace(t, i + 1) ELSE i

\* the identifier spelled by atoms s..e, upper-cased (group("table").upper())
RunName(t, s, e) == [k \in 1..(e - s + 1) |-> Upper(t[s + k - 1])]

\* \bKW\b with re.IGNORECASE matches at atom i of t
WholeWordAt(t, i, kw) ==
    /\ i \in 1..Len(t)
    /\ Upper(t[i]) = kw
    /\ (i = 1 \/ ~IsWord(t[i - 1]))
    /\ (i = Len(t) \/ ~IsWord(t[i + 1]))

\* variant: the pattern without its two \b
FieldSearch_Substring(window, field) == \E i \in 1..Len(window) : Upper(window[i]) = field

\* re.search(rf"\b{field}\b", window, re.IGNORECASE)
FieldSearch(window, field) == \E i \in 1..Len(window) : WholeWordAt(window, i, field)

\* \bFROM\b\s+(?P<table>\w+) matches at atom j of t
FromAt(t, j) ==
    /\ WholeWordAt(t, j, "FROM")
    /\ j + 1 <= Len(t)
    /\ IsSpace(t[j + 1])
    /\ SkipSpace(t, j + 1) <= Len(t)
    /\ IsWord(t[SkipSpace(t, j + 1)])

\* the lookahead (?=(\bSELECT\b|$)) succeeds just before atom k of t;
\* $ without re.MULTILINE also matches before a newline that ends the text
BlockEndAt(t, k) ==
    \/ WholeWordAt(t, k, "SELECT")
    \/ k = Len(t) + 1
    \/ (k = Len(t) /\ t[k] = NL)

\* the match of SQL_SELECT_BLOCK_RE that starts at the SELECT at atom i:
\* .+? takes the first FROM clause at least one character further, \w+ the
\* whole identifier, .*? the text up to the first place the lookahead holds.
\* start, tab (first atom of the table name), rest_start and end are atom
\* indexes, end exclusive.
BlockAt(t, i) ==
    LET j  == Min({x \in (i + 2)..Len(t) : FromAt(t, x)})
        ts == SkipSpace(t, j + 1)
        te == WordRunEnd(t, ts)
        e  == Min({k \in (te + 1)..(Len(t) + 1) : BlockEndAt(t, k)})
    IN [start |-> i, tab |-> ts, table |-> RunName(t, ts, te), rest_start |-> te + 1,
        end |-> e]

\* SQL_SELECT_BLOCK_RE can match with its SELECT at atom i
BlockStartAt(t, i) ==
    /\ WholeWordAt(t, i, "SELECT")
    /\ \E x \in (i + 2)..Len(t) : FromAt(t, x)

RECURSIVE BlocksFrom(_, _)
\* SQL_SELECT_BLOCK_RE.finditer(t), scanning from atom p
BlocksFrom(t, p) ==
    LET S == {i \in p..Len(t) : BlockStartAt(t, i)}
    IN IF S = {} THEN <<>>
       ELSE LET b == BlockAt(t, Min(S)) IN <<b>> \o BlocksFrom(t, b.end)

Blocks(t) == BlocksFrom(t, 1)

\* \bJOIN\s+(?P<table>\w+) with re.IGNORECASE matches at atom k of r
JoinAt(r, k) ==
    /\ k \in 1..Len(r)
    /\ Upper(r[k]) = "JOIN"
    /\ (k = 1 \/ ~IsWord(r[k - 1]))
    /\ k + 1 <= Len(r)
    /\ IsSpace(r[k + 1])
    /\ SkipSpace(r, k + 1) <= Len(r)
    /\ IsWord(r[SkipSpace(r, k + 1)])

RECURSIVE JoinsFrom(_, _)
\* JOIN_RE.finditer(r), scanning from atom p; at, tab (first atom of the
\* table name) and last are atom indexes in r
JoinsFrom(r, p) ==
    LET S == {k \in p..Len(r) : JoinAt(r, k)}
    IN IF S = {} THEN <<>>
       ELSE LET k  == Min(S)
                ts == SkipSpace(r, k + 1)
                te == WordRunEnd(r, ts)
            IN <<[at |-> k, tab |-> ts, last |-> te, table |-> RunName(r, ts, te)]>>
               \o JoinsFrom(r, te + 1)

Joins(r) == JoinsFrom(r, 1)

\* ------------------------------------------------------------- the scan
DIRECT == "SensitiveFieldDirectAccess"
JOINED == "SensitiveFieldJoinAccess"

\* the fields of SENSITIVE_FIELDS, in iteration order, found in the window
FieldsIn(window) == SelectSeq(SENSITIVE_FIELDS, LAMBDA f : FieldSearch(window, f))

\* stmt.group(0)
StmtText(src, b) == SubSeq(src, b.start, b.end - 1)

\* stmt.group("rest")
RestText(src, b) == SubSeq(src, b.rest_start, b.end - 1)

\* stmt.span()
StmtSpan(src, b) == <<CharOff(src, b.start), CharOff(src, b.end)>>

\* jm.span(): offsets of the match within the string JOIN_RE was run on,
\* which is stmt.group("rest")
JoinSpan(rest, jm) == <<CharOff(rest, jm.at), CharOff(rest, jm.last + 1)>>

\* position of the same JOIN match in the unit's text (not computed by the
\* code; used to state properties)
JoinAbsSpan(src, b, jm) ==
    <<CharOff(src, b.rest_start + jm.at - 1), CharOff(src, b.rest_start + jm.last)>>

\* variant: the table test left out
IsSensitiveTable_Any(name) == TRUE

\* "if table in SENSITIVE_TABLES" / "if jtable in SENSITIVE_TABLES"
IsSensitiveTable(name) == name \in SENSITIVE_TABLES

\* one hit: what the scan knows when it reaches the dedup (table, field,
\* span, category); stmt and abs record where the hit came from (the
\* block's span, and the unit-absolute span of the block or JOIN match)
Hit(cat, table, field, span, stmt, abs) ==
    [issue_type |-> cat, table |-> table, field |-> field, span |-> span,
     stmt |-> stmt, abs |-> abs]

\* the hits of the primary table of one block
DirectHits(src, b) ==
    IF IsSensitiveTable(b.table)
    THEN LET fs == FieldsIn(StmtText(src, b))
         IN [n \in 1..Len(fs) |->
                Hit(DIRECT, b.table, fs[n], StmtSpan(src, b), StmtSpan(src, b),
                    StmtSpan(src, b))]
    ELSE <<>>

\* the hits of one JOIN match of a block: every field found in the rest
OneJoinHits(src, b, jm) ==
    IF IsSensitiveTable(jm.table)
    THEN LET j_text == RestText(src, b)
             fs == FieldsIn(j_text)
         IN [n \in 1..Len(fs) |->
                Hit(JOINED, jm.table, fs[n], JoinSpan(j_text, jm), StmtSpan(src, b),
                    JoinAbsSpan(src, b, jm))]
    ELSE <<>>

RECURSIVE JoinHits(_, _, _)
\* the hits of the JOIN matches js of a block, left to right
JoinHits(src, b, js) ==
    IF js = <<>> THEN <<>>
    ELSE OneJoinHits(src, b, Head(js)) \o JoinHits(src, b, Tail(js))

\* one iteration of "for stmt in SQL_SELECT_BLOCK_RE.finditer(src)"
StmtHits(src, b) ==
    DirectHits(src, b) \o JoinHits(src, b, Joins(RestText(src, b)))

RECURSIVE AllHits(_, _)
AllHits(src, bs) ==
    IF bs = <<>> THEN <<>> ELSE StmtHits(src, Head(bs)) \o AllHits(src, Tail(bs))

\* scan_sql(code) of app1.py; also the order in which the loops of
\* scan_unit_for_sensitive_sql reach their dedup
scan_sql(code) == AllHits(code, Blocks(code))

\* snippet_at: the slice [s, e) of the text that is returned (each newline
\* inside it is then written as the two characters \n)
snippet_at(text, start, end) == <<Max2(0, start - 60), Min2(Width(text), end + 60)>>

\* variant: the key without the span
SeenKey_NoSpan(h) == <<h.table, h.field>>

\* key = (table, field, span) of app.py
SeenKey(h) == <<h.table, h.field, h.span>>

\* key = (hit["target_type"], hit["target_name"], hit["span"]) of app1.py
SelectKey(h) == <<"SQL_FIELD", h.field, h.span>>

\* the dict appended to findings in app.py (field stands for message and
\* suggestion, which are functions of it; span, stmt, abs are not in the
\* dict: they record the key's span and the origin of the finding)
MakeFinding(src, h) ==
    [issue_type |-> h.issue_type, severity |-> "error", field |-> h.field,
     snippet |-> snippet_at(src, h.span[1], h.span[2]),
     table |-> h.table, span |-> h.span, stmt |-> h.stmt, abs |-> h.abs]

\* the dict appended to findings in assess of app1.py
MakeSelect(h) ==
    [field |-> h.field, target_type |-> "SQL_FIELD", target_name |-> h.field,
     start_char_in_unit |-> h.span[1], end_char_in_unit |-> h.span[2],
     stmt |-> h.stmt, abs |-> h.abs]

RECURSIVE DedupFindings(_, _, _, _)
\* "if key in seen: continue / seen.add(key) / findings.append(...)" over the
\* hits in scan order
DedupFindings(src, hits, seen, findings) ==
    IF hits = <<>> THEN findings
    ELSE LET h == Head(hits)
         IN IF SeenKey(h) \in seen
            THEN DedupFindings(src, Tail(hits), seen, findings)
            ELSE DedupFindings(src, Tail(hits), seen \cup {SeenKey(h)},
                               Append(findings, MakeFinding(src, h)))

RECURSIVE DedupSelects(_, _, _)
DedupSelects(hits, seen, findings) ==
    IF hits = <<>> THEN findings
    ELSE LET h == Head(hits)
         IN IF SelectKey(h) \in seen
            THEN DedupSelects(Tail(hits), seen, findings)
            ELSE DedupSelects(Tail(hits), seen \cup {SelectKey(h)},
                              Append(findings, MakeSelect(h)))

\* Optional[List[Finding]]
None == [null |-> TRUE, items |-> <<>>]
Some(l) == [null |-> FALSE, items |-> l]

\* the findings list built by scan_unit_for_sensitive_sql
UnitFindings(src) == DedupFindings(src, scan_sql(src), {}, <<>>)

\* unit.model_dump(): a dict with one key per field of Unit
model_dump(u) == [k \in DOMAIN u |-> u[k]]

\* scan_unit_for_sensitive_sql(unit)
scan_unit_for_sensitive_sql(u) ==
    LET findings == UnitFindings(u.code)
        result_obj == model_dump(u)
    IN IF findings # <<>>
       THEN [result_obj EXCEPT !.findings = Some(findings)]
       ELSE result_obj

\* obj.get("findings") is truthy
Truthy(obj) ==
    /\ "findings" \in DOMAIN obj
    /\ ~obj.findings.null
    /\ obj.findings.items # <<>>

\* ------------------------------------------------------------ the inputs
\* number of statement segments a unit's text is built from
MaxStmts == 2

KW == <<"SELECT", SP>>

\* select lists
SelParts == {<<>>, <<"STAWN", SP>>}

\* FROM clauses (none: the SELECT has no FROM of its own)
FromParts == {<<>>, <<"FROM", SP, "MARC", SP>>, <<"FROM", SP, "MARA", SP>>}

\* what follows the table
TailParts == {<<>>,
              <<"STAWN", NL>>,
              <<"JOIN", SP, "MARC", SP, "EXPME", SP>>,
              <<"JOIN", SP, "MARC", SP, "EXPME", DOT, "STAWN", NL>>,
              <<"JOIN", SP, "MARA", SP, "JOIN", SP, "MARC", SP, "JOIN", SP, "MARC", SP,
                "STAWN", SP>>}

\* |Segments| = 30
Segments == {KW \o s \o f \o t : s \in SelParts, f \in FromParts, t \in TailParts}

\* letter case and identifier boundaries
CaseSelParts == {<<SP>>, <<SP, "MY_", "STAWN", "_X", SP, "FROM", DOT, "MARC", SP>>}

CaseFromParts == {<<"from", SP, "marc">>, <<"FROM", SP, "MARC", "_X">>, <<"FROM", NL, "MARA">>}

CaseTailParts == {<<SP, "stawn", DOT>>,
                  <<DOT, "X", "EXPME", SP, "join", SP, SP, "marc", DOT, "expme", NL>>}

\* |CaseSegments| = 24
CaseSegments ==
    {<<k>> \o s \o f \o t :
        k \in {"SELECT", "select"}, s \in CaseSelParts, f \in CaseFromParts, t \in CaseTailParts}

RECURSIVE TextsOf(_, _)
\* the texts made of at most n segments of S
TextsOf(S, n) ==
    IF n = 0 THEN {<<>>}
    ELSE LET P == TextsOf(S, n - 1) IN P \cup {p \o g : p \in P, g \in S}

\* a Unit of app.py with the given code and findings fields
UnitOf(code, fnd) ==
    [pgm_name |-> "ZPGM", inc_name |-> "ZINC", type |-> "method", name |-> "",
     class_implementation |-> "", start_line |-> 0, end_line |-> 0,
     code |-> code, findings |-> fnd]

\* ------------------------------------------------------- the state machine
\* unit: the Unit of the request; pc: "request" before a handler ran;
\* findings, result_obj: the local findings and the return value of
\* scan_unit_for_sensitive_sql; results: the response of app.py;
\* selects: obj["selects"] in the response of app1.py
VARIABLES unit, pc, findings, result_obj, results, selects

vars == <<unit, pc, findings, result_obj, results, selects>>

\* no value yet
Unset == <<>>

InitWith(codes, fnds) ==
    /\ unit \in {UnitOf(c, f) : c \in codes, f \in fnds}
    /\ pc = "request"
    /\ findings = Unset
    /\ result_obj = Unset
    /\ results = Unset
    /\ selects = Unset

Init == InitWith(TextsOf(Segments, MaxStmts), {None})

InitCase == InitWith(TextsOf(CaseSegments, MaxStmts), {None})

\* a Finding sent in with the unit
SentFinding == [issue_type |-> DIRECT, severity |-> "error", message |-> "sent"]

\* units that arrive with their optional findings field unset, empty or filled
InitFindings ==
    InitWith(TextsOf(Segments, MaxStmts - 1), {None, Some(<<>>), Some(<<SentFinding>>)})

\* POST /assess-2378796 of app.py for a request holding the one unit:
\* result_obj is the obj of the loop, results the response
scan_2378796 ==
    /\ pc = "request"
    /\ LET obj == scan_unit_for_sensitive_sql(unit)
       IN /\ findings' = UnitFindings(unit.code)
          /\ result_obj' = obj
          /\ results' = IF Truthy(obj) THEN <<obj>> ELSE <<>>
    /\ pc' = "scanned"
    /\ UNCHANGED <<unit, selects>>

\* POST /assess-2378796 of app1.py for a request holding the one unit:
\* selects is obj["selects"] of the one object of the response
assess ==
    /\ pc = "request"
    /\ selects' = DedupSelects(scan_sql(unit.code), {}, <<>>)
    /\ pc' = "assessed"
    /\ UNCHANGED <<unit, findings, result_obj, results>>

Next == scan_2378796 \/ assess

Spec == Init /\ [][Next]_vars

SpecCase == InitCase /\ [][Next]_vars

SpecFindings == InitFindings /\ [][Next]_vars

\* ------------------------------------------------------------ properties
Scanned == pc = "scanned"
Assessed == pc = "assessed"

RangeOf(q) == {q[i] : i \in DOMAIN q}

\* the statement blocks of the unit's text
UnitBlocks == RangeOf(Blocks(unit.code))

WatchedFields == {"STAWN", "EXPME"}

\* the ways a watched field is written
Spellings(f) == IF f = "STAWN" THEN {"STAWN", "stawn"} ELSE {"EXPME", "expme"}

\* the table name is MARC (names are compared upper-cased)
IsMARC(name) == name = <<"MARC">>

\* f occurs in the window, in any letter case, with no identifier character
\* before or after it
Occurs(window, f) ==
    \E i \in DOMAIN window :
        /\ window[i] \in Spellings(f)
        /\ (i = 1 \/ window[i - 1] \notin WordAtoms)
        /\ (i = Len(window) \/ window[i + 1] \notin WordAtoms)

\* the JOIN matches of block b whose table is MARC
MarcJoins(b) == {jm \in RangeOf(Joins(RestText(unit.code, b))) : IsMARC(jm.table)}

\* the findings of the unit that came from block b
FindingsOf(b) == {i \in DOMAIN findings : findings[i].stmt = StmtSpan(unit.code, b)}

\* C1: after a scan, each block whose FROM table is MARC has exactly one
\* direct-access finding for each watched field that occurs in its text and
\* none for a watched field that does not; the direct-access findings of one
\* field have pairwise distinct spans, so k MARC statements that each
\* reference STAWN give k direct-access findings.
C1_DirectOnePerField ==
    Scanned =>
        /\ \A b \in UnitBlocks : IsMARC(b.table) =>
              \A f \in WatchedFields :
                  Cardinality({i \in DOMAIN findings :
                                  /\ findings[i].issue_type = DIRECT
                                  /\ findings[i].field = f
                                  /\ findings[i].span = StmtSpan(unit.code, b)})
                    = IF Occurs(StmtText(unit.code, b), f) THEN 1 ELSE 0
        /\ \A i, j \in DOMAIN findings :
              (/\ i # j
               /\ findings[i].issue_type = DIRECT
               /\ findings[j].issue_type = DIRECT
               /\ findings[i].field = findings[j].field)
              => findings[i].span # findings[j].span
        /\ Cardinality({i \in DOMAIN findings :
                           findings[i].issue_type = DIRECT /\ findings[i].field = "STAWN"})
             = Cardinality({b \in UnitBlocks :
                               IsMARC(b.table) /\ Occurs(StmtText(unit.code, b), "STAWN")})

\* two MARC statements that each reference STAWN gave two direct findings
C1_Witness ==
    /\ Scanned
    /\ Cardinality({b \in UnitBlocks :
                       IsMARC(b.table) /\ Occurs(StmtText(unit.code, b), "STAWN")}) = 2
    /\ Cardinality({i \in DOMAIN findings :
                       findings[i].issue_type = DIRECT /\ findings[i].field = "STAWN"}) = 2

\* C2 as stated: a block whose FROM table is not watched yields no finding
\* at all, whatever its text holds.
C2_UnwatchedTableNoFinding ==
    Scanned => \A b \in UnitBlocks : ~IsMARC(b.table) => FindingsOf(b) = {}

\* C2 amended: a block whose FROM table is not watched yields no
\* direct-access finding, whatever its text holds, and no finding at all
\* when its rest has no JOIN of the watched table.
C2_UnwatchedTableNoDirect ==
    Scanned =>
        \A b \in UnitBlocks : ~IsMARC(b.table) =>
            /\ \A i \in FindingsOf(b) : findings[i].issue_type # DIRECT
            /\ MarcJoins(b) = {} => FindingsOf(b) = {}

\* a block on another table whose text names a watched field gave nothing
C2_Witness ==
    /\ Scanned
    /\ \E b \in UnitBlocks :
          /\ ~IsMARC(b.table)
          /\ Occurs(StmtText(unit.code, b), "STAWN")
          /\ MarcJoins(b) = {}
          /\ FindingsOf(b) = {}
    /\ \E b \in UnitBlocks :
          /\ ~IsMARC(b.table)
          /\ MarcJoins(b) # {}
          /\ FindingsOf(b) # {}

\* C3: for a block whose FROM table is not watched and whose rest has a JOIN
\* of MARC, every watched field that occurs in the rest is reported for that
\* block with the join category, and the block has no direct-access finding.
C3_JoinCategory ==
    Scanned =>
        \A b \in UnitBlocks : (~IsMARC(b.table) /\ MarcJoins(b) # {}) =>
            /\ \A f \in WatchedFields : Occurs(RestText(unit.code, b), f) =>
                  \E i \in FindingsOf(b) :
                      findings[i].issue_type = JOINED /\ findings[i].field = f
            /\ \A i \in FindingsOf(b) : findings[i].issue_type # DIRECT

\* C4: a watched field is reported for a unit if and only if it occurs, in
\* any letter case and as a whole word, in a scan window of a watched table
\* written in any letter case: the text of a block whose FROM table is MARC,
\* or the rest of a block that has a JOIN of MARC.
C4_WholeWordAnyCase ==
    Scanned =>
        \A f \in WatchedFields :
            (\E i \in DOMAIN findings : findings[i].field = f)
            <=> \E b \in UnitBlocks :
                    \/ /\ unit.code[b.tab] \in {"MARC", "marc"}
                       /\ b.rest_start = b.tab + 1
                       /\ Occurs(StmtText(unit.code, b), f)
                    \/ /\ \E jm \in RangeOf(Joins(RestText(unit.code, b))) :
                              /\ RestText(unit.code, b)[jm.tab] \in {"MARC", "marc"}
                              /\ jm.last = jm.tab
                       /\ Occurs(RestText(unit.code, b), f)

\* a lower-case field of a lower-case table was reported while the field
\* name inside a longer identifier was not
C4_Witness ==
    /\ Scanned
    /\ \E i \in DOMAIN unit.code : unit.code[i] = "marc"
    /\ \E i \in DOMAIN unit.code : unit.code[i] = "expme"
    /\ \E i \in DOMAIN unit.code : unit.code[i] = "STAWN"
    /\ \E i \in DOMAIN findings : findings[i].field = "EXPME"
    /\ \A i \in DOMAIN findings : findings[i].field # "STAWN"

\* C5: when the scan of a unit finds nothing, the result for the unit has
\* no findings key, whatever findings the unit arrived with.
C5_FindingsAbsent ==
    (Scanned /\ findings = <<>>) => "findings" \notin DOMAIN result_obj

\* C6: the findings of a unit correspond one to one to the distinct
\* (table, field, unit-absolute span) hits of its scan.
C6_OnePerAbsoluteKey ==
    Scanned =>
        Len(findings)
          = Cardinality({<<h.table, h.field, h.abs>> : h \in RangeOf(scan_sql(unit.code))})

\* C7: if a block has a JOIN of MARC and a watched field occurs anywhere in
\* the block's text, the unit has a finding for that field.
C7_NoFalseNegativeOnJoin ==
    Scanned =>
        \A b \in UnitBlocks : MarcJoins(b) # {} =>
            \A f \in WatchedFields : Occurs(StmtText(unit.code, b), f) =>
                \E i \in DOMAIN findings : findings[i].field = f

\* SELECT is a whole word at atom i of the unit's text
SelectAt(i) ==
    /\ i \in DOMAIN unit.code
    /\ unit.code[i] \in {"SELECT", "select"}
    /\ (i = 1 \/ unit.code[i - 1] \notin WordAtoms)
    /\ (i = Len(unit.code) \/ unit.code[i + 1] \notin WordAtoms)

\* C8: every block starts at a SELECT, ends at the next SELECT or at the end
\* of the text, and so holds no other SELECT; blocks come in strictly
\* increasing start order and do not overlap.
C8_BlockSpans ==
    Scanned =>
        LET bs == Blocks(unit.code)
        IN /\ \A n \in DOMAIN bs :
                 /\ SelectAt(bs[n].start)
                 /\ \A k \in (bs[n].start + 1)..(bs[n].end - 1) : ~SelectAt(k)
                 /\ (SelectAt(bs[n].end) \/ bs[n].end = Len(unit.code) + 1)
           /\ \A n \in DOMAIN bs : n + 1 \in DOMAIN bs =>
                 (bs[n].start < bs[n + 1].start /\ bs[n].end <= bs[n + 1].start)

\* C9: the span of every join finding is the unit-absolute span of its
\* JOIN match, and its snippet is the slice from max(0, start - 60) to
\* min(len, end + 60) around that span.
C9_JoinSpanAbsolute ==
    Scanned =>
        \A i \in DOMAIN findings : findings[i].issue_type = JOINED =>
            /\ findings[i].span = findings[i].abs
            /\ findings[i].snippet =
                  <<Max2(0, findings[i].abs[1] - 60),
                    Min2(Width(unit.code), findings[i].abs[2] + 60)>>
            /\ findings[i].snippet[1] <= findings[i].abs[1]
            /\ findings[i].abs[2] <= findings[i].snippet[2]

\* position of a field in the rule table
FieldRank(f) == IF f = "STAWN" THEN 1 ELSE 2

\* x comes before y in discovery order: earlier block first; in one block
\* the block's own (direct) position before its JOIN matches, these left to
\* right; at one position STAWN before EXPME
Before(x, y) ==
    \/ x.stmt[1] < y.stmt[1]
    \/ /\ x.stmt = y.stmt
       /\ \/ x.abs[1] < y.abs[1]
          \/ x.abs = y.abs /\ FieldRank(x.field) < FieldRank(y.field)

\* C10: the findings are in discovery order, in the result of app.py (where
\* also every direct finding of a block precedes its join findings) and in
\* the selects of app1.py.
C10_DiscoveryOrder ==
    /\ Scanned =>
          \A i, j \in DOMAIN findings : i < j =>
              /\ Before(findings[i], findings[j])
              /\ findings[i].stmt = findings[j].stmt =>
                    ~(findings[i].issue_type = JOINED /\ findings[j].issue_type = DIRECT)
    /\ Assessed =>
          \A i, j \in DOMAIN selects : i < j => Before(selects[i], selects[j])

\* one block gave a direct finding, then both fields at a JOIN, and a later
\* block gave a finding after them
C10_Witness ==
    /\ Scanned
    /\ \E i, j, k, l \in DOMAIN findings :
          /\ i < j /\ j < k /\ k < l
          /\ findings[i].issue_type = DIRECT
          /\ findings[j].issue_type = JOINED /\ findings[j].field = "STAWN"
          /\ findings[k].issue_type = JOINED /\ findings[k].field = "EXPME"
          /\ findings[j].abs = findings[k].abs
          /\ findings[i].stmt = findings[k].stmt
          /\ findings[l].stmt # findings[k].stmt

====
